---- MODULE Spec2Model ----
(***************************************************************************)
(* A model of AdvancedStockAnalyzer (src/main.py): the fetched price       *)
(* frames, calculate_advanced_indicators, portfolio_analysis with its two  *)
(* metric helpers, and visualize_advanced_analysis.                        *)
(*                                                                         *)
(* Numbers.  A float is one of                                             *)
(*    <<"num", n, d>>   the rational n/d (d > 0, lowest terms)             *)
(*    <<"nan", 0, 1>>   NaN, pandas' marker for "not available"            *)
(*    <<"inf", s, 1>>   +inf (s = 1) or -inf (s = -1)                      *)
(*    <<"sqrt", n, d>>  the non-negative square root of n/d                *)
(* and the results that need the 252nd power or an exponential blend are   *)
(* kept as the arithmetic expression the code evaluates ("ewm", "sub",     *)
(* "zscore", "annualize", "mean", "sharpe"): two equal expressions are     *)
(* equal floats.  Rational arithmetic is exact, so the model states the    *)
(* algebra of the pipeline, not its rounding.                              *)
(*                                                                         *)
(* Positions.  Sequences are 1-based: index i of the source is i + 1 here. *)
(* Closes are strictly positive integers, as fetched prices are.           *)
(***************************************************************************)
EXTENDS Integers, Sequences, FiniteSets, TLC

VARIABLES tickers, stock_data, indicators, pc, k, portfolio_data, returned,
          raised, fig

vars == <<tickers, stock_data, indicators, pc, k, portfolio_data, returned,
          raised, fig>>

-----------------------------------------------------------------------------
(* Bounds of the checked inputs and the literals of the source.            *)

MaxBars == 3
MaxClose == 3
MaxBatchBars == 2
MaxBatchClose == 2
MaxLongBars == 22
MaxLongClose == 2

VolWindow == 20
TradingDays == 252
EmaFast == 20
EmaSlow == 50
MacdFast == 12
MacdSlow == 26
MacdSignal == 9

-----------------------------------------------------------------------------
(* Exact arithmetic on the floats above.                                   *)

Abs(n) == IF n < 0 THEN -n ELSE n

RECURSIVE Gcd(_, _)
Gcd(a, b) == IF b = 0 THEN a ELSE Gcd(b, a % b)

Num(n, d) ==
    LET s == IF d < 0 THEN -1 ELSE 1
        g == Gcd(Abs(n), Abs(d))
    IN  <<"num", (s * n) \div g, (s * d) \div g>>

Whole(n) == <<"num", n, 1>>
NaN == <<"nan", 0, 1>>
PosInf == <<"inf", 1, 1>>
NegInf == <<"inf", -1, 1>>

IsNaN(v) == v[1] = "nan"

Lcm(a, b) == (a \div Gcd(a, b)) * b

Add(a, b) ==
    IF IsNaN(a) \/ IsNaN(b) THEN NaN
    ELSE LET l == Lcm(a[3], b[3])
         IN  Num(a[2] * (l \div a[3]) + b[2] * (l \div b[3]), l)

Neg(a) == IF IsNaN(a) THEN NaN ELSE <<"num", -a[2], a[3]>>

Sub(a, b) == Add(a, Neg(b))

Mul(a, b) ==
    IF IsNaN(a) \/ IsNaN(b) THEN NaN
    ELSE LET g1 == Gcd(Abs(a[2]), b[3])
             g2 == Gcd(Abs(b[2]), a[3])
         IN  Num((a[2] \div g1) * (b[2] \div g2), (a[3] \div g2) * (b[3] \div g1))

\* Closes are positive, so no divisor of the pipeline's rational steps is 0.
Div(a, b) ==
    IF IsNaN(a) \/ IsNaN(b) THEN NaN
    ELSE Mul(a, Num(b[3], b[2]))

Lt(a, b) == a[2] * b[3] < b[2] * a[3]

Sqrt(v) == IF IsNaN(v) THEN NaN ELSE <<"sqrt", v[2], v[3]>>

\* sqrt(n/d) * np.sqrt(c)
SqrtTimesSqrt(s, c) ==
    IF IsNaN(s) THEN NaN ELSE Sqrt(Mul(<<"num", s[2], s[3]>>, Whole(c)))

-----------------------------------------------------------------------------
(* pandas Series reductions and transforms, NaN-skipping as pandas does.   *)

RECURSIVE Valid(_)
Valid(xs) ==
    IF xs = <<>> THEN <<>>
    ELSE IF IsNaN(Head(xs)) THEN Valid(Tail(xs))
    ELSE <<Head(xs)>> \o Valid(Tail(xs))

RECURSIVE Sum(_)
Sum(xs) == IF xs = <<>> THEN Whole(0) ELSE Add(Head(xs), Sum(Tail(xs)))

\* Series.mean(): over the non-NaN entries, NaN when there is none.
Mean(xs) ==
    LET v == Valid(xs)
    IN  IF Len(v) = 0 THEN NaN ELSE Div(Sum(v), Whole(Len(v)))

\* The variance behind Series.std(ddof): NaN unless count - ddof > 0.
Var(xs, ddof) ==
    LET v == Valid(xs)
        m == Mean(v)
        sq == [i \in 1..Len(v) |-> Mul(Sub(v[i], m), Sub(v[i], m))]
    IN  IF Len(v) - ddof <= 0 THEN NaN
        ELSE Div(Sum(sq), Whole(Len(v) - ddof))

\* Series.std(): ddof = 1.
Std(xs) == Sqrt(Var(xs, 1))

\* pct_change(periods = -1): the change towards the next bar.
PctChangeAhead(x) ==
    [i \in 1..Len(x) |->
        IF i = Len(x) THEN NaN ELSE Sub(Div(x[i], x[i + 1]), Whole(1))]

\* Series.pct_change(): NaN at the first position.
PctChange(x) ==
    [i \in 1..Len(x) |->
        IF i = 1 THEN NaN ELSE Sub(Div(x[i], x[i - 1]), Whole(1))]

\* A rolling window that counts its NaN entries as observations.
RollingStdCountingNaN(x, w) ==
    [i \in 1..Len(x) |->
        LET lo == IF i - w + 1 < 1 THEN 1 ELSE i - w + 1
            win == SubSeq(x, lo, i)
        IN  IF Len(win) < w THEN NaN ELSE Std(win)]

\* Series.rolling(window = w).std(): min_periods defaults to the window, so
\* a window holding fewer than w non-NaN entries gives NaN.
RollingStd(x, w) ==
    [i \in 1..Len(x) |->
        LET lo == IF i - w + 1 < 1 THEN 1 ELSE i - w + 1
            win == SubSeq(x, lo, i)
        IN  IF Len(Valid(win)) < w THEN NaN ELSE Std(win)]

\* Series.cumprod(): NaN at a NaN entry, which the running product skips.
RECURSIVE CumProdFrom(_, _, _)
CumProdFrom(x, i, acc) ==
    IF i > Len(x) THEN <<>>
    ELSE IF IsNaN(x[i]) THEN <<NaN>> \o CumProdFrom(x, i + 1, acc)
    ELSE <<Mul(acc, x[i])>> \o CumProdFrom(x, i + 1, Mul(acc, x[i]))

\* cumprod(skipna = False): the first NaN poisons every later product.
CumProdPoisoned(x) ==
    [i \in 1..Len(x) |->
        IF \E j \in 1..i : IsNaN(x[j]) THEN NaN
        ELSE CumProdFrom(x, 1, Whole(1))[i]]

CumProd(x) == CumProdFrom(x, 1, Whole(1))

\* Series.cummax().
RECURSIVE CumMaxFrom(_, _, _)
CumMaxFrom(x, i, acc) ==
    IF i > Len(x) THEN <<>>
    ELSE LET m == IF i = 1 \/ Lt(acc, x[i]) THEN x[i] ELSE acc
         IN  <<m>> \o CumMaxFrom(x, i + 1, m)

CumMax(x) == CumMaxFrom(x, 1, Whole(0))

\* Series.min(): over the non-NaN entries, NaN when there is none.
RECURSIVE MinOf(_)
MinOf(v) ==
    IF Len(v) = 1 THEN v[1]
    ELSE LET m == MinOf(Tail(v))
         IN  IF Lt(m, v[1]) THEN m ELSE v[1]

Min(xs) == IF Valid(xs) = <<>> THEN NaN ELSE MinOf(Valid(xs))

\* Series.ewm(span, adjust = False).mean(): y[0] = x[0] and
\* y[t] = (1 - a) * y[t-1] + a * x[t] with a = 2 / (span + 1), kept as that
\* expression.
RECURSIVE Ewm(_, _)
Ewm(x, span) ==
    IF Len(x) = 0 THEN <<>>
    ELSE IF Len(x) = 1 THEN <<x[1]>>
    ELSE LET y == Ewm(SubSeq(x, 1, Len(x) - 1), span)
         IN  Append(y, <<"ewm", 2, span + 1, y[Len(y)], x[Len(x)]>>)

\* a - b on two expression-valued series.
SeriesSub(a, b) == [i \in 1..Len(a) |-> <<"sub", a[i], b[i]>>]

\* scipy.stats.zscore(a): (a - a.mean()) / a.std(ddof = 0) over the whole
\* array; a zero deviation (a constant array) gives NaN.
ZScore(x) ==
    LET m == Mean(x)
        v == Var(x, 0)
    IN  [i \in 1..Len(x) |->
            IF IsNaN(v) \/ v = Whole(0) THEN NaN
            ELSE <<"zscore", Sub(x[i], m), v>>]

-----------------------------------------------------------------------------
(* DataFrames: an index of timestamps and named columns of equal length.   *)

Frame(ts, closes) ==
    [index |-> ts,
     cols |-> [c \in {"Close"} |-> [i \in 1..Len(closes) |-> Whole(closes[i])]]]

\* data[name] = series
SetCol(data, name, series) ==
    [data EXCEPT !.cols =
        [c \in DOMAIN @ \cup {name} |-> IF c = name THEN series ELSE @[c]]]

Col(data, name) == data.cols[name]

FrameLen(data) == Len(data.index)

\* 1 + series and series - 1
Plus1(x) == [i \in 1..Len(x) |-> Add(Whole(1), x[i])]
Minus1(x) == [i \in 1..Len(x) |-> Sub(x[i], Whole(1))]

\* Lines 54-66: each assignment adds one column to data.
WithIndicators(data0) ==
    LET close == Col(data0, "Close")
        d1 == SetCol(data0, "EMA_20", Ewm(close, EmaFast))
        d2 == SetCol(d1, "EMA_50", Ewm(close, EmaSlow))
        d3 == SetCol(d2, "MACD_Line",
                     SeriesSub(Ewm(close, MacdFast), Ewm(close, MacdSlow)))
        d4 == SetCol(d3, "Signal_Line", Ewm(Col(d3, "MACD_Line"), MacdSignal))
        d5 == SetCol(d4, "MACD_Histogram",
                     SeriesSub(Col(d4, "MACD_Line"), Col(d4, "Signal_Line")))
        d6 == SetCol(d5, "Daily_Returns", PctChange(close))
        rs == RollingStd(Col(d6, "Daily_Returns"), VolWindow)
        d7 == SetCol(d6, "Rolling_Volatility",
                     [i \in 1..Len(rs) |-> SqrtTimesSqrt(rs[i], TradingDays)])
        d8 == SetCol(d7, "Z_Score", ZScore(close))
    IN  SetCol(d8, "Cumulative_Return",
               Minus1(CumProd(Plus1(Col(d8, "Daily_Returns")))))

\* Without .copy(): data is the stored frame itself.
StoredAfterCallAliased(price_data) == WithIndicators(price_data)

\* Line 53: the columns are assigned to a copy, so the frame held in
\* self.stock_data is the one that was fetched.
StoredAfterCall(price_data) == price_data

\* calculate_advanced_indicators(ticker): the frame it returns.
CalculateAdvancedIndicators(price_data) == WithIndicators(price_data)

-----------------------------------------------------------------------------
(* The metric helpers of portfolio_analysis.                               *)

RiskFreeRate == Num(1, 50)

\* The sign of (1 + m)^252 - 1 - 0.02, decided by
\* 1 + 1/12726 < 1.02^(1/252) < 1 + 1/12725; no mean of the checked inputs
\* falls between the two.
ExcessSign(m) ==
    LET g == Add(Whole(1), m)
        a == IF g[2] < 0 THEN Neg(g) ELSE g
    IN  IF ~Lt(a, Add(Whole(1), Num(1, 12725))) THEN 1
        ELSE IF ~Lt(Add(Whole(1), Num(1, 12726)), a) THEN -1
        ELSE 0

\* A Sharpe ratio that answers 0 for a zero volatility.
CalculateSharpeRatioZeroGuard(returns) ==
    LET m == Mean(returns)
        annualized_volatility == SqrtTimesSqrt(Std(returns), TradingDays)
    IN  IF IsNaN(m) \/ IsNaN(annualized_volatility) THEN NaN
        ELSE IF annualized_volatility[2] = 0 THEN Whole(0)
        ELSE <<"sharpe", m, RiskFreeRate, annualized_volatility>>

\* _calculate_sharpe_ratio(returns): numpy divides by a zero volatility
\* without raising, giving +inf, -inf or NaN by the sign of the numerator.
CalculateSharpeRatio(returns) ==
    LET m == Mean(returns)
        annualized_volatility == SqrtTimesSqrt(Std(returns), TradingDays)
    IN  IF IsNaN(m) \/ IsNaN(annualized_volatility) THEN NaN
        ELSE IF annualized_volatility[2] = 0
             THEN CASE ExcessSign(m) = 1 -> PosInf
                    [] ExcessSign(m) = -1 -> NegInf
                    [] OTHER -> NaN
        ELSE <<"sharpe", m, RiskFreeRate, annualized_volatility>>

\* drawdown.max() in place of drawdown.min().
CalculateMaxDrawdownOfMax(prices) ==
    LET cumulative_max == CumMax(prices)
        drawdown == [i \in 1..Len(prices) |->
                        Div(Sub(prices[i], cumulative_max[i]), cumulative_max[i])]
    IN  Neg(Min([i \in 1..Len(prices) |-> Neg(drawdown[i])]))

\* _calculate_max_drawdown(prices)
CalculateMaxDrawdown(prices) ==
    LET cumulative_max == CumMax(prices)
        drawdown == [i \in 1..Len(prices) |->
                        Div(Sub(prices[i], cumulative_max[i]), cumulative_max[i])]
    IN  Min(drawdown)

\* (1 + total) ** (252 / len(data)) - 1
Annualize(total, n) ==
    IF IsNaN(total) THEN NaN
    ELSE <<"annualize", Add(Whole(1), total), TradingDays, n>>

\* Series.mean() of the volatility column: the mean of square roots.
MeanOfRoots(xs) ==
    IF Valid(xs) = <<>> THEN NaN ELSE <<"mean", Valid(xs)>>

\* Lines 81-87: the record of one ticker; data has at least one row.
Metrics(data) ==
    LET total == Col(data, "Cumulative_Return")[FrameLen(data)]
    IN  [Total_Return |-> total,
         Annualized_Return |-> Annualize(total, FrameLen(data)),
         Volatility |-> MeanOfRoots(Col(data, "Rolling_Volatility")),
         Sharpe_Ratio |-> CalculateSharpeRatio(Col(data, "Daily_Returns")),
         Max_Drawdown |-> CalculateMaxDrawdown(Col(data, "Close"))]

\* dict[key] = value
Put(dict, key, value) ==
    [x \in DOMAIN dict \cup {key} |-> IF x = key THEN value ELSE dict[x]]

Range(s) == {s[i] : i \in DOMAIN s}

-----------------------------------------------------------------------------
(* The operations.  The analyzer is single-threaded: no call starts while  *)
(* portfolio_analysis is inside its loop.                                  *)

PriceData(t) == stock_data[t].price_data

\* What one call of calculate_advanced_indicators(t) leaves behind.
CallIndicators(t) ==
    /\ indicators' = Put(indicators, t, CalculateAdvancedIndicators(PriceData(t)))
    /\ stock_data' = [stock_data EXCEPT ![t].price_data = StoredAfterCall(@)]

\* A caller invokes calculate_advanced_indicators(t) directly.
Calculate(t) ==
    /\ pc # "loop"
    /\ CallIndicators(t)
    /\ UNCHANGED <<tickers, pc, k, portfolio_data, returned, raised, fig>>

\* portfolio_analysis() is entered: line 77.
PortfolioStart ==
    /\ pc # "loop"
    /\ pc' = "loop"
    /\ k' = 1
    /\ portfolio_data' = <<>>
    /\ returned' = <<>>
    /\ raised' = "none"
    /\ UNCHANGED <<tickers, stock_data, indicators, fig>>

\* One pass of the loop, lines 78-87, on a frame with rows.
PortfolioRecord ==
    /\ pc = "loop"
    /\ k <= Len(tickers)
    /\ FrameLen(PriceData(tickers[k])) > 0
    /\ CallIndicators(tickers[k])
    /\ portfolio_data' = Put(portfolio_data, tickers[k],
                             Metrics(CalculateAdvancedIndicators(PriceData(tickers[k]))))
    /\ k' = k + 1
    /\ UNCHANGED <<tickers, pc, returned, raised, fig>>

\* One pass of the loop on a frame without rows (a fetch that found no
\* history): the column assignments work on the empty frame, .iloc[-1] on
\* line 82 raises IndexError, nothing catches it, and the dict built so far
\* is lost.
PortfolioRaise ==
    /\ pc = "loop"
    /\ k <= Len(tickers)
    /\ FrameLen(PriceData(tickers[k])) = 0
    /\ CallIndicators(tickers[k])
    /\ pc' = "raised"
    /\ raised' = "IndexError"
    /\ portfolio_data' = <<>>
    /\ UNCHANGED <<tickers, k, returned, fig>>

\* Line 89.
PortfolioReturn ==
    /\ pc = "loop"
    /\ k > Len(tickers)
    /\ pc' = "returned"
    /\ returned' = portfolio_data
    /\ UNCHANGED <<tickers, stock_data, indicators, k, portfolio_data, raised, fig>>

PlottedColumns ==
    <<"Close", "EMA_20", "EMA_50", "MACD_Line", "Signal_Line",
      "MACD_Histogram", "Rolling_Volatility">>

\* visualize_advanced_analysis(t): the figure is the traces of the columns
\* it reads, over data.index.
Visualize(t) ==
    /\ pc # "loop"
    /\ CallIndicators(t)
    /\ fig' = [title |-> t,
               x |-> CalculateAdvancedIndicators(PriceData(t)).index,
               traces |-> PlottedColumns]
    /\ UNCHANGED <<tickers, pc, k, portfolio_data, returned, raised>>

Next ==
    \/ \E t \in Range(tickers) : Calculate(t)
    \/ PortfolioStart
    \/ PortfolioRecord
    \/ PortfolioRaise
    \/ PortfolioReturn
    \/ \E t \in Range(tickers) : Visualize(t)

-----------------------------------------------------------------------------
(* Construction: __init__ stores the tickers and what fetch_stock_data     *)
(* returned.  Three families of fetched input.                             *)

CloseSeqs(maxLen, maxClose) ==
    UNION {[1..n -> 1..maxClose] : n \in 0..maxLen}

Ascending(n) == [i \in 1..n |-> i]

\* Ascending timestamps, or ascending but for one bar j that repeats the
\* timestamp before it (shift 1) or falls behind it (shift 2).
IndexSeqs(n) ==
    {Ascending(n)} \cup
    {[i \in 1..n |-> IF i < j THEN i ELSE i - shift] : j \in 2..n, shift \in {1, 2}}

Constructed(tk, data) ==
    /\ tickers = tk
    /\ stock_data = data
    /\ indicators = <<>>
    /\ pc = "idle"
    /\ k = 1
    /\ portfolio_data = <<>>
    /\ returned = <<>>
    /\ raised = "none"
    /\ fig = [title |-> "", x |-> <<>>, traces |-> <<>>]

Fetched(frames) == [t \in DOMAIN frames |-> [price_data |-> frames[t]]]

BatchTickers == <<"AAPL", "GOOGL">>

BatchFrames ==
    {Frame(Ascending(Len(c)), c) : c \in CloseSeqs(MaxBatchBars, MaxBatchClose)}

\* A batch of two tickers, every short series for each.
Init ==
    \E f \in [Range(BatchTickers) -> BatchFrames] :
        Constructed(BatchTickers, Fetched(f))

Spec == Init /\ [][Next]_vars

OneTicker == <<"AAPL">>

OneFrames ==
    UNION {{Frame(ts, c) : ts \in IndexSeqs(Len(c))} : c \in CloseSeqs(MaxBars, MaxClose)}

\* One ticker, every series and every index defect.
InitOne ==
    \E f \in [Range(OneTicker) -> OneFrames] :
        Constructed(OneTicker, Fetched(f))

SpecOne == InitOne /\ [][Next]_vars

\* Closes 2, 1, 2, 1, ... with a chosen last close.
LongFrame(n, last) ==
    Frame(Ascending(n), [i \in 1..n |-> IF i = n THEN last ELSE 1 + (i % 2)])

LongFrames(lo) ==
    {LongFrame(n, c) : n \in lo..MaxLongBars, c \in 1..MaxLongClose}

\* Two tickers with series long enough for the rolling window.
InitLong ==
    \E a \in LongFrames(0) : \E b \in LongFrames(VolWindow) :
        Constructed(BatchTickers,
                    Fetched([t \in Range(BatchTickers) |->
                                IF t = BatchTickers[1] THEN a ELSE b]))

\* main() runs portfolio_analysis first (line 217); the long series are
\* checked under that call alone.
NextPortfolio ==
    \/ PortfolioStart
    \/ PortfolioRecord
    \/ PortfolioRaise
    \/ PortfolioReturn

SpecLong == InitLong /\ [][NextPortfolio]_vars
-----------------------------------------------------------------------------
(* Vocabulary of the properties.                                           *)

Bars(t) == FrameLen(PriceData(t))

Position(t) == CHOOSE i \in 1..Len(tickers) : tickers[i] = t

\* portfolio_analysis has finished its pass on ticker t.
PipelineEnded(t) ==
    \/ pc \in {"loop", "returned"} /\ Position(t) < k
    \/ pc = "raised" /\ Position(t) = k

\* The timestamps of t are not strictly ascending.
NotAscending(t) ==
    \E i \in 2..Bars(t) : PriceData(t).index[i] <= PriceData(t).index[i - 1]

Zero == Whole(0)

\* C1: whenever the pipeline has finished on a series of zero or one bar, it
\* ended in an InsufficientData rejection and left no indicator frame and no
\* metrics record for that ticker.
C1_ShortSeriesRejected ==
    \A t \in Range(tickers) :
        (Bars(t) <= 1 /\ PipelineEnded(t)) =>
            /\ raised = "InsufficientData"
            /\ t \notin DOMAIN indicators
            /\ t \notin DOMAIN portfolio_data

\* C2: a series whose timestamps are not strictly ascending is rejected with
\* InvalidSeries, and no indicators or metrics are computed from it.
C2_UnorderedSeriesRejected ==
    \A t \in Range(tickers) :
        NotAscending(t) =>
            /\ t \notin DOMAIN indicators
            /\ t \notin DOMAIN portfolio_data
            /\ PipelineEnded(t) => raised = "InvalidSeries"

\* C3: when the batch run has stopped on a failing ticker, every other ticker
\* with a usable series has its metrics record in the returned result.
C3_OtherTickersUnaffected ==
    pc = "raised" =>
        \A u \in Range(tickers) :
            (u # tickers[k] /\ Bars(u) > 0) => u \in DOMAIN returned

\* The annualized standard deviation of the daily returns of a frame is
\* exactly 0.
ZeroVolatility(data) ==
    SqrtTimesSqrt(Std(Col(data, "Daily_Returns")), TradingDays) = <<"sqrt", 0, 1>>

NonFinite(v) == v[1] \in {"inf", "nan"}

\* C4: when the annualized standard deviation of the daily returns is exactly
\* 0, the pass on that ticker raises nothing and its record carries a
\* non-finite Sharpe_Ratio, also in the dict portfolio_analysis returns.
C4_ZeroVolatilitySentinel ==
    \A t \in Range(tickers) :
        (PipelineEnded(t) /\ ZeroVolatility(indicators[t])) =>
            /\ raised = "none"
            /\ t \in DOMAIN portfolio_data
            /\ NonFinite(portfolio_data[t].Sharpe_Ratio)
            /\ pc = "returned" =>
                  t \in DOMAIN returned /\ NonFinite(returned[t].Sharpe_Ratio)

\* A constant close series of three bars came back with Sharpe_Ratio = -inf.
C4_Witness ==
    /\ pc = "returned"
    /\ \E t \in DOMAIN returned :
          /\ Bars(t) = 3
          /\ ZeroVolatility(indicators[t])
          /\ returned[t].Sharpe_Ratio = NegInf

\* max(close[0..i]) and the drawdown at i, read off the fetched closes.
PeakAt(close, i) ==
    CHOOSE m \in {close[j] : j \in 1..i} :
        \A j \in 1..i : ~Lt(m, close[j])

DrawdownAt(close, i) ==
    Div(Sub(close[i], PeakAt(close, i)), PeakAt(close, i))

NonDecreasing(close) ==
    \A i \in 2..Len(close) : ~Lt(close[i], close[i - 1])

\* C5: Max_Drawdown of a non-empty series is the least of
\* (close[i] - max(close[0..i])) / max(close[0..i]); it is never above 0 and
\* is 0 when the closes never fall.
C5_MaxDrawdown ==
    \A t \in DOMAIN portfolio_data :
        LET close == Col(PriceData(t), "Close")
            md == portfolio_data[t].Max_Drawdown
        IN  /\ \E i \in 1..Len(close) : md = DrawdownAt(close, i)
            /\ \A i \in 1..Len(close) : ~Lt(DrawdownAt(close, i), md)
            /\ ~Lt(Zero, md)
            /\ NonDecreasing(close) => md = Zero

\* A falling three-bar series has a negative Max_Drawdown.
C5_Witness ==
    \E t \in DOMAIN portfolio_data :
        /\ Bars(t) = 3
        /\ ~NonDecreasing(Col(PriceData(t), "Close"))
        /\ Lt(portfolio_data[t].Max_Drawdown, Zero)

\* C6: in every computed frame of at least one bar, Cumulative_Return is 0
\* at index 0 and Daily_Returns is undefined there.
C6_CumulativeReturnStartsAtZero ==
    \A t \in DOMAIN indicators :
        Bars(t) >= 1 =>
            /\ Col(indicators[t], "Cumulative_Return")[1] = Zero
            /\ IsNaN(Col(indicators[t], "Daily_Returns")[1])

\* close[i] / close[0] - 1
GrowthSince0(close, i) == Sub(Div(close[i], close[1]), Whole(1))

\* C7: with at least two bars, Cumulative_Return at every index i >= 1 is
\* close[i] / close[0] - 1, and Total_Return is final_close / first_close - 1.
C7_CumulativeReturnTelescopes ==
    /\ \A t \in DOMAIN indicators :
          Bars(t) >= 2 =>
              \A i \in 2..Bars(t) :
                  Col(indicators[t], "Cumulative_Return")[i]
                      = GrowthSince0(Col(PriceData(t), "Close"), i)
    /\ \A t \in DOMAIN portfolio_data :
          Bars(t) >= 2 =>
              portfolio_data[t].Total_Return
                  = GrowthSince0(Col(PriceData(t), "Close"), Bars(t))

\* A three-bar series that moved came back with a non-zero Total_Return.
C7_Witness ==
    \E t \in DOMAIN portfolio_data :
        /\ Bars(t) = 3
        /\ Col(PriceData(t), "Close")[2] # Col(PriceData(t), "Close")[1]
        /\ portfolio_data[t].Total_Return # Zero

\* Two fetched frames carry the same bars at positions 1..i.
AgreeUpTo(a, b, i) ==
    /\ i <= FrameLen(a) /\ i <= FrameLen(b)
    /\ SubSeq(a.index, 1, i) = SubSeq(b.index, 1, i)
    /\ SubSeq(Col(a, "Close"), 1, i) = SubSeq(Col(b, "Close"), 1, i)

\* Two runs give the same value of every column of cols at each position up
\* to which their inputs agree.
NoLookAhead(cols) ==
    \A t \in DOMAIN indicators : \A u \in DOMAIN indicators :
        \A i \in 1..Bars(t) :
            AgreeUpTo(PriceData(t), PriceData(u), i) =>
                \A c \in cols :
                    Col(indicators[t], c)[i] = Col(indicators[u], c)[i]

TrailingColumns ==
    {"EMA_20", "EMA_50", "MACD_Line", "Signal_Line", "MACD_Histogram",
     "Daily_Returns", "Rolling_Volatility", "Cumulative_Return"}

\* C8 as stated: no indicator column, Z_Score included, looks ahead.
C8_NoLookAheadAnyColumn == NoLookAhead(TrailingColumns \cup {"Z_Score"})

\* C8 as amended: every indicator column other than Z_Score has, at index i,
\* a value that depends on bars 0..i only.
C8_NoLookAheadButZScore == NoLookAhead(TrailingColumns)

\* Two frames that differ, agree on their first 21 bars and have a defined
\* Rolling_Volatility at index 20.
C8_Witness ==
    \E t \in DOMAIN indicators : \E u \in DOMAIN indicators :
        /\ PriceData(t) # PriceData(u)
        /\ AgreeUpTo(PriceData(t), PriceData(u), VolWindow + 1)
        /\ ~IsNaN(Col(indicators[t], "Rolling_Volatility")[VolWindow + 1])

\* C9: no call changes the fetched data held in self.stock_data, and a call
\* repeated on a ticker returns the frame the earlier call returned.
C9_InputUntouched ==
    [][/\ stock_data' = stock_data
       /\ \A t \in DOMAIN indicators :
             t \in DOMAIN indicators' /\ indicators'[t] = indicators[t]]_vars

\* All three operations have run, on every ticker, and the stored frames
\* still hold the Close column alone.
C9_Witness ==
    /\ pc = "returned"
    /\ fig.title # ""
    /\ DOMAIN indicators = Range(tickers)
    /\ \A t \in Range(tickers) :
          Bars(t) > 0 /\ DOMAIN PriceData(t).cols = {"Close"}

\* C10: Rolling_Volatility is undefined at exactly the first 20 indices, and
\* the Volatility metric is a number exactly when the series has at least 21
\* bars.
C10_RollingVolatilityWindow ==
    /\ \A t \in DOMAIN indicators :
          \A i \in 1..Bars(t) :
              IsNaN(Col(indicators[t], "Rolling_Volatility")[i]) <=> i <= VolWindow
    /\ \A t \in DOMAIN portfolio_data :
          ~IsNaN(portfolio_data[t].Volatility) <=> Bars(t) >= VolWindow + 1

\* A series of exactly 21 bars has a defined Volatility, one of 20 has not.
C10_Witness ==
    \E t \in DOMAIN portfolio_data : \E u \in DOMAIN portfolio_data :
        /\ Bars(t) = VolWindow + 1 /\ ~IsNaN(portfolio_data[t].Volatility)
        /\ Bars(u) = VolWindow /\ IsNaN(portfolio_data[u].Volatility)
====
